---------------------------- MODULE Spec2Model ----------------------------
(***************************************************************************)
(* Model of the triple-extraction evaluation engine of KE-LLM              *)
(* (src/evaluate.py): normaliser, similarity matcher, deduplicator, the    *)
(* three greedy metric calculators and the corpus aggregator.              *)
(*                                                                         *)
(* Python strings are modelled as sequences of one-character strings, so   *)
(* that the regular-expression substitutions, split, strip and substring   *)
(* tests of the source are computed character by character.                *)
(***************************************************************************)
EXTENDS Integers, Sequences, FiniteSets, TLC

VARIABLES
    pc,               \* position of the running top-level call
    triplet_str,      \* normalize_triplet: the argument
    normalized,       \* normalize_triplet: result of the first call
    renormalized,     \* normalize_triplet: result of calling it on its own result
    entities,         \* deduplicate_entities: the argument list
    threshold,        \* deduplicate_entities: the threshold argument, a fraction
    unique_entities,  \* deduplicate_entities: the returned list
    rededup,          \* deduplicate_entities applied to its own output
    calc,             \* which metric calculator is called
    gold,             \* the caller's gold list object
    pred,             \* the caller's predicted list object
    metrics,          \* the dictionary a metric calculator returned
    gold_dir,         \* process_folders: file name -> content of the gold folder
    pred_dir,         \* process_folders: file name -> content of the prediction folder
    todo,             \* process_folders: sorted(common_files) not yet visited
    file_results,     \* process_folders: file name -> metrics of process_file_pair
    overall,          \* process_folders: running corpus totals and type tables
    all_results,      \* process_folders: the returned value
    report,           \* process_folders: what became of the report file
    save_excel,       \* process_folders: the save_excel argument
    evaluated,        \* process_folders: the names handed to process_file_pair, in order
    file_text,        \* parse_triplets: the content argument
    parsed,           \* parse_triplets: the returned list
    ent1,             \* is_similar_entity: the argument entity1
    ent2,             \* is_similar_entity: the argument entity2
    similar,          \* is_similar_entity: the returned value
    client,           \* which API client the DrugProcessor belongs to
    api_tokens,       \* DrugProcessor: self.api_tokens
    current_token_index,  \* DrugProcessor: self.current_token_index
    failed_tokens,    \* DrugProcessor of doubao.py: self.failed_tokens
    request_method,   \* DrugProcessor: self.request_method
    token,            \* what the last call of get_next_token returned
    max_retries,      \* make_api_request: the max_retries argument
    attempt,          \* make_api_request: the loop variable
    taken,            \* make_api_request: per attempt that got a token, what became of it
    response          \* make_api_request: the returned value

vars == <<pc, triplet_str, normalized, renormalized, entities, threshold,
          unique_entities, rededup, calc, gold, pred, metrics, gold_dir, pred_dir, todo,
          file_results, overall, all_results, report, save_excel, evaluated,
          file_text, parsed, ent1, ent2, similar, client, api_tokens,
          current_token_index, failed_tokens, request_method, token, max_retries,
          attempt, taken, response>>

normVars   == <<triplet_str, normalized, renormalized>>
dedupVars  == <<entities, threshold, unique_entities, rededup>>
calcVars   == <<calc, gold, pred, metrics>>
callVars   == <<file_text, parsed, ent1, ent2, similar>>
clientVars == <<client, api_tokens, current_token_index, failed_tokens,
                request_method, token, max_retries, attempt, taken, response>>
folderVars == <<gold_dir, pred_dir, todo, file_results, overall, all_results, report,
                save_excel, evaluated>>

None == "None"

\* None in a variable that holds a dictionary once it is set
NoDict == [none |-> TRUE]

-----------------------------------------------------------------------------
(* Bounds of the model *)

MaxStrLen == 4      \* longest string handed to normalize_triplet
MaxEntities == 4    \* longest list handed to deduplicate_entities
MaxGold == 3        \* longest gold list handed to a metric calculator
MaxPred == 3        \* longest predicted list handed to a metric calculator
MaxFiles == 2       \* number of distinct .txt file names in the two folders

BoundedSeq(S, n) == UNION {[1..m -> S] : m \in 0..n}

-----------------------------------------------------------------------------
(* Python string primitives *)

Whitespace == {" ", "\t", "\n"}
Brackets == {"(", ")", "[", "]", "{", "}"}

RECURSIVE SkipSpaces(_, _)
\* index of the first character at or after i that is not whitespace
SkipSpaces(s, i) ==
    IF i <= Len(s) /\ s[i] \in Whitespace THEN SkipSpaces(s, i + 1) ELSE i

RECURSIVE SkipSpacesBack(_, _)
SkipSpacesBack(s, i) ==
    IF i >= 1 /\ s[i] \in Whitespace THEN SkipSpacesBack(s, i - 1) ELSE i

\* str.strip()
Strip(s) ==
    LET lo == SkipSpaces(s, 1)
        hi == SkipSpacesBack(s, Len(s))
    IN  IF lo > hi THEN <<>> ELSE SubSeq(s, lo, hi)

\* re.sub(r'[\(\)\[\]\{\}]', '', s)
RemoveBrackets(s) == SelectSeq(s, LAMBDA c : c \notin Brackets)

RECURSIVE SubCommas(_, _)
\* re.sub(r'\s*,\s*', ', ', s), scanning from index i
SubCommas(s, i) ==
    IF i > Len(s) THEN <<>>
    ELSE LET j == SkipSpaces(s, i)
         IN  IF j <= Len(s) /\ s[j] = ","
             THEN <<",", " ">> \o SubCommas(s, SkipSpaces(s, j + 1))
             ELSE <<s[i]>> \o SubCommas(s, i + 1)

RECURSIVE SubParens(_, _)
\* re.sub(r'\([^)]*\)', '', s), scanning from index i
SubParens(s, i) ==
    IF i > Len(s) THEN <<>>
    ELSE IF s[i] = "(" /\ \E j \in (i + 1)..Len(s) : s[j] = ")"
         THEN LET j == CHOOSE k \in (i + 1)..Len(s) :
                          /\ s[k] = ")"
                          /\ \A m \in (i + 1)..(k - 1) : s[m] # ")"
              IN  SubParens(s, j + 1)
         ELSE <<s[i]>> \o SubParens(s, i + 1)

RECURSIVE CollapseSpaces(_, _)
\* re.sub(r'\s+', ' ', s), scanning from index i
CollapseSpaces(s, i) ==
    IF i > Len(s) THEN <<>>
    ELSE IF s[i] \in Whitespace
         THEN <<" ">> \o CollapseSpaces(s, SkipSpaces(s, i))
         ELSE <<s[i]>> \o CollapseSpaces(s, i + 1)

\* A slip in the order of the substitutions: separators are normalised
\* before the brackets are removed.
normalize_triplet_commas_first(s) ==
    Strip(CollapseSpaces(SubParens(RemoveBrackets(SubCommas(s, 1)), 1), 1))

normalize_triplet(s) ==
    Strip(CollapseSpaces(SubParens(SubCommas(RemoveBrackets(s), 1), 1), 1))

-----------------------------------------------------------------------------
(* Entities, similarity and deduplication *)

\* the label "未知类型" that extract_entity_type gives an entity without a colon
UnknownType == <<"unknown">>

HasColon(entity) == \E i \in 1..Len(entity) : entity[i] = ":"

FirstColon(entity) ==
    CHOOSE i \in 1..Len(entity) :
        entity[i] = ":" /\ \A j \in 1..(i - 1) : entity[j] # ":"

extract_entity_type(entity) ==
    IF HasColon(entity) THEN SubSeq(entity, 1, FirstColon(entity) - 1)
    ELSE UnknownType

extract_relation_type(relation) == relation

\* entity.split(':', 1)[1] if ':' in entity else entity
EntityContent(entity) ==
    IF HasColon(entity) THEN SubSeq(entity, FirstColon(entity) + 1, Len(entity))
    ELSE entity

\* Python's  x in y  on strings
IsSubstring(x, y) ==
    \E i \in 0..(Len(y) - Len(x)) : SubSeq(y, i + 1, i + Len(x)) = x

RECURSIVE RunLength(_, _, _, _, _, _)
\* length of the common run of a[i..ahi] and b[j..bhi] that starts at i and j
RunLength(a, i, ahi, b, j, bhi) ==
    IF i <= ahi /\ j <= bhi /\ a[i] = b[j]
    THEN 1 + RunLength(a, i + 1, ahi, b, j + 1, bhi)
    ELSE 0

\* difflib.SequenceMatcher.find_longest_match without junk: the longest
\* block, the earliest in a among the longest, the earliest in b among those
find_longest_match(a, alo, ahi, b, blo, bhi) ==
    LET blocks == {<<i, j, RunLength(a, i, ahi, b, j, bhi)>> :
                       i \in alo..ahi, j \in blo..bhi}
        best == CHOOSE m \in blocks :
                    \A n \in blocks :
                        \/ m[3] > n[3]
                        \/ m[3] = n[3] /\ m[1] < n[1]
                        \/ m[3] = n[3] /\ m[1] = n[1] /\ m[2] <= n[2]
    IN  IF blocks = {} THEN <<alo, blo, 0>> ELSE best

RECURSIVE MatchedChars(_, _, _, _, _, _)
\* sum of the sizes of SequenceMatcher.get_matching_blocks()
MatchedChars(a, alo, ahi, b, blo, bhi) ==
    LET m == find_longest_match(a, alo, ahi, b, blo, bhi)
    IN  IF m[3] = 0 THEN 0
        ELSE m[3] + MatchedChars(a, alo, m[1] - 1, b, blo, m[2] - 1)
                  + MatchedChars(a, m[1] + m[3], ahi, b, m[2] + m[3], bhi)

\* SequenceMatcher(None, a, b).ratio() >= threshold, the threshold thr given
\* as the fraction thr[1] / thr[2]; ratio() is 1.0 for two empty strings
RatioAtLeast(a, b, thr) ==
    LET total == Len(a) + Len(b)
        matches == MatchedChars(a, 1, Len(a), b, 1, Len(b))
    IN  IF total = 0 THEN thr[2] >= thr[1]
        ELSE 2 * matches * thr[2] >= thr[1] * total

\* the default threshold=0.8 of is_similar_entity and deduplicate_entities
DefaultThreshold == <<4, 5>>

\* A slip: containment is tested in one direction only.
is_similar_entity_one_way(entity1, entity2, thr) ==
    IF entity1 = entity2 THEN TRUE
    ELSE LET content1 == EntityContent(entity1)
             content2 == EntityContent(entity2)
         IN  IF IsSubstring(content1, content2)
             THEN TRUE
             ELSE RatioAtLeast(content1, content2, thr)

\* A slip: two entities are similar only when their contents are equal.
is_similar_entity_exact(entity1, entity2, thr) ==
    IF entity1 = entity2 THEN TRUE
    ELSE EntityContent(entity1) = EntityContent(entity2)

\* A slip: the containment test is left out, the ratio alone decides.
is_similar_entity_ratio_only(entity1, entity2, thr) ==
    IF entity1 = entity2 THEN TRUE
    ELSE RatioAtLeast(EntityContent(entity1), EntityContent(entity2), thr)

is_similar_entity(entity1, entity2, thr) ==
    IF entity1 = entity2 THEN TRUE
    ELSE LET content1 == EntityContent(entity1)
             content2 == EntityContent(entity2)
         IN  IF IsSubstring(content1, content2) \/ IsSubstring(content2, content1)
             THEN TRUE
             ELSE RatioAtLeast(content1, content2, thr)

RECURSIVE DedupAdjacent(_, _, _, _)
\* A slip: an entity is compared with its predecessor in the input, not
\* with the entities kept so far.
DedupAdjacent(ents, i, acc, thr) ==
    IF i > Len(ents) THEN acc
    ELSE IF i > 1 /\ is_similar_entity(ents[i], ents[i - 1], thr)
         THEN DedupAdjacent(ents, i + 1, acc, thr)
         ELSE DedupAdjacent(ents, i + 1, Append(acc, ents[i]), thr)

RECURSIVE DedupKeepLast(_, _, _, _)
\* A slip: the later of two similar entities replaces the kept one.
DedupKeepLast(ents, i, acc, thr) ==
    IF i > Len(ents) THEN acc
    ELSE IF \E k \in 1..Len(acc) : is_similar_entity(ents[i], acc[k], thr)
         THEN LET k == CHOOSE k \in 1..Len(acc) :
                          /\ is_similar_entity(ents[i], acc[k], thr)
                          /\ \A m \in 1..(k - 1) :
                                 ~is_similar_entity(ents[i], acc[m], thr)
              IN  DedupKeepLast(ents, i + 1, [acc EXCEPT ![k] = ents[i]], thr)
         ELSE DedupKeepLast(ents, i + 1, Append(acc, ents[i]), thr)

RECURSIVE DedupFrom(_, _, _, _)
\* the loop of deduplicate_entities from input index i, acc = unique_entities
DedupFrom(ents, i, acc, thr) ==
    IF i > Len(ents) THEN acc
    ELSE IF \E k \in 1..Len(acc) : is_similar_entity(ents[i], acc[k], thr)
         THEN DedupFrom(ents, i + 1, acc, thr)
         ELSE DedupFrom(ents, i + 1, Append(acc, ents[i]), thr)

deduplicate_entities_adjacent(ents, thr) == DedupAdjacent(ents, 1, <<>>, thr)

deduplicate_entities_keep_last(ents, thr) == DedupKeepLast(ents, 1, <<>>, thr)

deduplicate_entities(ents, thr) == DedupFrom(ents, 1, <<>>, thr)

-----------------------------------------------------------------------------
(* Precision, recall and F1 *)

\* Python floats are modelled as reduced fractions <<numerator, denominator>>
RECURSIVE GCD(_, _)
GCD(a, b) == IF b = 0 THEN a ELSE GCD(b, a % b)

\* the marker of a division that raises ZeroDivisionError
ZeroDivisionError == <<0, 0>>

\* n / d
Divide(n, d) ==
    IF d = 0 THEN ZeroDivisionError
    ELSE LET g == GCD(n, d) IN <<n \div g, d \div g>>

\* the literal 0 of the  else 0  branches
Zero == <<0, 1>>

\* A slip: the guard compares with >= and no longer excludes a zero denominator.
PrecisionUnguarded(tp, fp) ==
    IF tp + fp >= 0 THEN Divide(tp, tp + fp) ELSE Zero

\* tp / (tp + fp) if (tp + fp) > 0 else 0
Precision(tp, fp) ==
    IF tp + fp > 0 THEN Divide(tp, tp + fp) ELSE Zero

\* tp / (tp + fn) if (tp + fn) > 0 else 0
Recall(tp, fn) ==
    IF tp + fn > 0 THEN Divide(tp, tp + fn) ELSE Zero

\* 2 * precision * recall / (precision + recall) if (precision + recall) > 0 else 0
F1(precision, recall) ==
    IF precision = ZeroDivisionError \/ recall = ZeroDivisionError
    THEN ZeroDivisionError
    ELSE LET sum == <<precision[1] * recall[2] + recall[1] * precision[2],
                      precision[2] * recall[2]>>
         IN  IF sum[1] > 0
             THEN Divide(2 * precision[1] * recall[1] * sum[2],
                         precision[2] * recall[2] * sum[1])
             ELSE Zero

\* the three derived values of one tp/fp/fn record
Derived(tp, fp, fn) ==
    LET precision == Precision(tp, fp)
        recall == Recall(tp, fn)
    IN  [precision |-> precision, recall |-> recall, f1 |-> F1(precision, recall)]

\* stats['precision'], stats['recall'], stats['f1'] set on every entry of a type table
WithDerived(stats) ==
    [t \in DOMAIN stats |->
        LET m == Derived(stats[t].tp, stats[t].fp, stats[t].fn)
        IN  [tp |-> stats[t].tp, fp |-> stats[t].fp, fn |-> stats[t].fn,
             precision |-> m.precision, recall |-> m.recall, f1 |-> m.f1]]

\* a division raised while the values of m, or of the type table, were computed
Raised(m, stats) ==
    \/ ZeroDivisionError \in {m.precision, m.recall, m.f1}
    \/ \E t \in DOMAIN stats :
          ZeroDivisionError \in {stats[t].precision, stats[t].recall, stats[t].f1}

-----------------------------------------------------------------------------
(* The metric calculators *)

\* A slip: the scan runs from the right, the last hit is taken.
Rightmost(S) == CHOOSE x \in S : \A y \in S : x >= y

Min(S) == CHOOSE x \in S : \A y \in S : x <= y

\* A slip: the matched item is not removed from the working list.
PopNothing(list, k) == list

\* A slip: pop() without the index removes the last item.
PopLast(list, k) == SubSeq(list, 1, Len(list) - 1)

\* A slip: pop(0) removes the first item, whichever item matched.
PopFirst(list, k) == Tail(list)

\* list.pop(k)
Pop(list, k) == SubSeq(list, 1, k - 1) \o SubSeq(list, k + 1, Len(list))

\* A slip: the working list is bound to the argument itself, no copy is made.
list_alias(heap, src, new) == [ref |-> src, heap |-> heap]

\* new = src.copy(): the list objects of a call are kept in a heap, and the
\* copy is a new object with the items of src
list_copy(heap, src, new) ==
    [ref |-> new,
     heap |-> [o \in DOMAIN heap \cup {new} |-> IF o = new THEN heap[src] ELSE heap[o]]]

\* A slip: the entry of the label is created anew at every count.
BumpFresh(stats, label, field) ==
    [t \in DOMAIN stats \cup {label} |->
        IF t = label THEN [[tp |-> 0, fp |-> 0, fn |-> 0] EXCEPT ![field] = 1]
        ELSE stats[t]]

\* defaultdict(lambda: {'tp': 0, 'fp': 0, 'fn': 0}): stats[label][field] += 1
Bump(stats, label, field) ==
    LET old == IF label \in DOMAIN stats THEN stats[label]
               ELSE [tp |-> 0, fp |-> 0, fn |-> 0]
    IN  [t \in DOMAIN stats \cup {label} |->
            IF t = label THEN [old EXCEPT ![field] = @ + 1] ELSE stats[t]]

\* A slip: only the first left-over prediction is counted in the type table.
BumpAllFirstOnly(stats, labels, field, i) ==
    IF labels = <<>> THEN stats ELSE Bump(stats, labels[1], field)

RECURSIVE BumpAll(_, _, _, _)
\* the loops that count the false positives of each type, from index i
BumpAll(stats, labels, field, i) ==
    IF i > Len(labels) THEN stats
    ELSE BumpAll(Bump(stats, labels[i], field), labels, field, i + 1)

\* the state of a matching loop before the first gold item.  positions and
\* matched_pos are history: positions[k] is the place in the predicted
\* argument of the k-th item of the working list, matched_pos[i] the place
\* consumed by gold item i, or 0
StartOfLoop(heap, npred) ==
    [heap |-> heap, positions |-> [k \in 1..npred |-> k], matched_pos |-> <<>>,
     tp |-> 0, fn |-> 0, unmatched_gold |-> <<>>, type_stats |-> <<>>]

\* f"({s}, {p}, {o})"
FormatTriplet(t) ==
    <<"(">> \o t[1] \o <<",", " ">> \o t[2] \o <<",", " ">> \o t[3] \o <<")">>

NormalizeAll(triplets) ==
    [i \in 1..Len(triplets) |-> normalize_triplet(FormatTriplet(triplets[i]))]

RECURSIVE TripletLoop(_, _, _, _, _)
\* the loop over gold_normalized of calculate_metrics, from gold index i
TripletLoop(gold_triplets, gold_normalized, ref, i, st) ==
    IF i > Len(gold_normalized) THEN st
    ELSE LET pred_remaining == st.heap[ref]
             hits == {j \in 1..Len(pred_remaining) :
                          gold_normalized[i] = pred_remaining[j]}
         IN  IF hits # {}
             THEN LET j == Min(hits)
                  IN  TripletLoop(gold_triplets, gold_normalized, ref, i + 1,
                          [st EXCEPT !.tp = @ + 1,
                                     !.heap[ref] = Pop(@, j),
                                     !.positions = Pop(@, j),
                                     !.matched_pos = Append(@, st.positions[j])])
             ELSE TripletLoop(gold_triplets, gold_normalized, ref, i + 1,
                      [st EXCEPT !.fn = @ + 1,
                                 !.matched_pos = Append(@, 0),
                                 !.unmatched_gold = Append(@, gold_triplets[i])])

RECURSIVE OriginalsOf(_, _, _, _)
\* the loop that looks up, for each remaining normalised string, the first
\* predicted triple with that normal form
OriginalsOf(pred_remaining, pred_triplets, pred_normalized, k) ==
    IF k > Len(pred_remaining) THEN <<>>
    ELSE LET found == {i \in 1..Len(pred_triplets) :
                           pred_normalized[i] = pred_remaining[k]}
             rest == OriginalsOf(pred_remaining, pred_triplets, pred_normalized, k + 1)
         IN  IF found # {} THEN <<pred_triplets[Min(found)]>> \o rest ELSE rest

calculate_metrics(gold_triplets, pred_triplets) ==
    LET gold_normalized == NormalizeAll(gold_triplets)
        pred_normalized == NormalizeAll(pred_triplets)
        heap0 == [gold_triplets |-> gold_triplets, pred_triplets |-> pred_triplets,
                  gold_normalized |-> gold_normalized,
                  pred_normalized |-> pred_normalized]
        copy == list_copy(heap0, "pred_normalized", "pred_remaining")
        st == TripletLoop(gold_triplets, gold_normalized, copy.ref, 1,
                          StartOfLoop(copy.heap, Len(pred_triplets)))
        pred_remaining == st.heap[copy.ref]
        fp == Len(pred_remaining)
        m == Derived(st.tp, fp, st.fn)
    IN  [tp |-> st.tp, fp |-> fp, fn |-> st.fn,
         precision |-> m.precision, recall |-> m.recall, f1 |-> m.f1,
         unmatched_gold |-> st.unmatched_gold,
         unmatched_pred |-> OriginalsOf(pred_remaining, pred_triplets,
                                        pred_normalized, 1),
         raised |-> Raised(m, <<>>),
         matched_pos |-> st.matched_pos,
         unmatched_pos |-> st.positions,
         gold_arg |-> st.heap.gold_triplets,
         pred_arg |-> st.heap.pred_triplets]

RECURSIVE EntityLoop(_, _, _, _)
\* the loop over gold_entities of calculate_entity_metrics, from gold index i
EntityLoop(gold_entities, ref, i, st) ==
    IF i > Len(gold_entities) THEN st
    ELSE LET pred_remaining == st.heap[ref]
             entity_type == extract_entity_type(gold_entities[i])
             hits == {j \in 1..Len(pred_remaining) :
                          is_similar_entity(gold_entities[i], pred_remaining[j],
                                            DefaultThreshold)}
         IN  IF hits # {}
             THEN LET j == Min(hits)
                  IN  EntityLoop(gold_entities, ref, i + 1,
                          [st EXCEPT !.tp = @ + 1,
                                     !.heap[ref] = Pop(@, j),
                                     !.positions = Pop(@, j),
                                     !.matched_pos = Append(@, st.positions[j]),
                                     !.type_stats = Bump(@, entity_type, "tp")])
             ELSE EntityLoop(gold_entities, ref, i + 1,
                      [st EXCEPT !.fn = @ + 1,
                                 !.matched_pos = Append(@, 0),
                                 !.unmatched_gold = Append(@, gold_entities[i]),
                                 !.type_stats = Bump(@, entity_type, "fn")])

calculate_entity_metrics(gold_entities, pred_entities) ==
    LET heap0 == [gold_entities |-> gold_entities, pred_entities |-> pred_entities]
        copy == list_copy(heap0, "pred_entities", "pred_remaining")
        st == EntityLoop(gold_entities, copy.ref, 1,
                         StartOfLoop(copy.heap, Len(pred_entities)))
        pred_remaining == st.heap[copy.ref]
        fp == Len(pred_remaining)
        fp_types == [k \in 1..Len(pred_remaining) |->
                        extract_entity_type(pred_remaining[k])]
        entity_type_stats == WithDerived(BumpAll(st.type_stats, fp_types, "fp", 1))
        m == Derived(st.tp, fp, st.fn)
    IN  [tp |-> st.tp, fp |-> fp, fn |-> st.fn,
         precision |-> m.precision, recall |-> m.recall, f1 |-> m.f1,
         unmatched_gold |-> st.unmatched_gold,
         unmatched_pred |-> pred_remaining,
         type_stats |-> entity_type_stats,
         raised |-> Raised(m, entity_type_stats),
         matched_pos |-> st.matched_pos,
         unmatched_pos |-> st.positions,
         gold_arg |-> st.heap.gold_entities,
         pred_arg |-> st.heap.pred_entities]

RECURSIVE RelationLoop(_, _, _, _)
\* the loop over gold_relations of calculate_relation_metrics, from gold index i
RelationLoop(gold_relations, ref, i, st) ==
    IF i > Len(gold_relations) THEN st
    ELSE LET pred_remaining == st.heap[ref]
             relation_type == extract_relation_type(gold_relations[i])
             hits == {j \in 1..Len(pred_remaining) :
                          gold_relations[i] = pred_remaining[j]}
         IN  IF hits # {}
             THEN LET j == Min(hits)
                  IN  RelationLoop(gold_relations, ref, i + 1,
                          [st EXCEPT !.tp = @ + 1,
                                     !.heap[ref] = Pop(@, j),
                                     !.positions = Pop(@, j),
                                     !.matched_pos = Append(@, st.positions[j]),
                                     !.type_stats = Bump(@, relation_type, "tp")])
             ELSE RelationLoop(gold_relations, ref, i + 1,
                      [st EXCEPT !.fn = @ + 1,
                                 !.matched_pos = Append(@, 0),
                                 !.unmatched_gold = Append(@, gold_relations[i]),
                                 !.type_stats = Bump(@, relation_type, "fn")])

calculate_relation_metrics(gold_relations, pred_relations) ==
    LET heap0 == [gold_relations |-> gold_relations, pred_relations |-> pred_relations]
        copy == list_copy(heap0, "pred_relations", "pred_remaining")
        st == RelationLoop(gold_relations, copy.ref, 1,
                           StartOfLoop(copy.heap, Len(pred_relations)))
        pred_remaining == st.heap[copy.ref]
        fp == Len(pred_remaining)
        fp_types == [k \in 1..Len(pred_remaining) |->
                        extract_relation_type(pred_remaining[k])]
        relation_type_stats == WithDerived(BumpAll(st.type_stats, fp_types, "fp", 1))
        m == Derived(st.tp, fp, st.fn)
    IN  [tp |-> st.tp, fp |-> fp, fn |-> st.fn,
         precision |-> m.precision, recall |-> m.recall, f1 |-> m.f1,
         unmatched_gold |-> st.unmatched_gold,
         unmatched_pred |-> pred_remaining,
         type_stats |-> relation_type_stats,
         raised |-> Raised(m, relation_type_stats),
         matched_pos |-> st.matched_pos,
         unmatched_pos |-> st.positions,
         gold_arg |-> st.heap.gold_relations,
         pred_arg |-> st.heap.pred_relations]

-----------------------------------------------------------------------------
(* Parsing a file and evaluating one file pair *)

OpenBrackets == {"(", "[", "{"}
CloseBrackets == {")", "]", "}"}

RECURSIVE FindGroups(_, _)
\* re.findall(r'[\(\[\{]([^\)\]\}]+?)[\)\]\}]', content), scanning from index i
FindGroups(content, i) ==
    IF i > Len(content) THEN <<>>
    ELSE LET closers == {j \in (i + 1)..Len(content) : content[j] \in CloseBrackets}
         IN  IF content[i] \in OpenBrackets /\ closers # {} /\ Min(closers) >= i + 2
             THEN <<SubSeq(content, i + 1, Min(closers) - 1)>>
                      \o FindGroups(content, Min(closers) + 1)
             ELSE FindGroups(content, i + 1)

RECURSIVE Split(_, _, _)
\* str.split(sep) from index i
Split(str, sep, i) ==
    LET seps == {j \in i..Len(str) : str[j] = sep}
    IN  IF seps = {} THEN <<SubSeq(str, i, Len(str))>>
        ELSE <<SubSeq(str, i, Min(seps) - 1)>> \o Split(str, sep, Min(seps) + 1)

RECURSIVE Join(_, _, _)
\* sep.join(parts[i:])
Join(sep, parts, i) ==
    IF i > Len(parts) THEN <<>>
    ELSE IF i = Len(parts) THEN parts[i]
         ELSE parts[i] \o sep \o Join(sep, parts, i + 1)

RECURSIVE TripletsOfThird(_, _)
\* A slip: the object is the third segment alone, later segments are lost.
TripletsOfThird(matches, k) ==
    IF k > Len(matches) THEN <<>>
    ELSE LET raw == Split(matches[k], ",", 1)
             parts == [n \in 1..Len(raw) |-> Strip(raw[n])]
         IN  IF Len(parts) >= 3
             THEN << <<parts[1], parts[2], parts[3]>> >> \o TripletsOfThird(matches, k + 1)
             ELSE TripletsOfThird(matches, k + 1)

RECURSIVE TripletsOf(_, _)
\* the loop over the matches of parse_triplets, from match k
TripletsOf(matches, k) ==
    IF k > Len(matches) THEN <<>>
    ELSE LET raw == Split(matches[k], ",", 1)
             parts == [n \in 1..Len(raw) |-> Strip(raw[n])]
         IN  IF Len(parts) >= 3
             THEN << <<parts[1], parts[2], Join(<<",", " ">>, parts, 3)>> >>
                      \o TripletsOf(matches, k + 1)
             ELSE TripletsOf(matches, k + 1)

parse_triplets(content) == TripletsOf(FindGroups(content, 1), 1)

RECURSIVE SubjectsAndObjects(_, _)
\* entities.append(s); entities.append(o) for every triple, from triple i
SubjectsAndObjects(triplets, i) ==
    IF i > Len(triplets) THEN <<>>
    ELSE <<triplets[i][1], triplets[i][3]>> \o SubjectsAndObjects(triplets, i + 1)

\* A slip: the flag is not looked at, the entities are never deduplicated.
extract_entities_and_relations_keep_all(triplets, deduplicate_entities_flag) ==
    [entities |-> SubjectsAndObjects(triplets, 1),
     relations |-> [i \in 1..Len(triplets) |-> triplets[i][2]]]

extract_entities_and_relations(triplets, deduplicate_entities_flag) ==
    LET all == SubjectsAndObjects(triplets, 1)
    IN  [entities |-> IF deduplicate_entities_flag
                      THEN deduplicate_entities(all, DefaultThreshold) ELSE all,
         relations |-> [i \in 1..Len(triplets) |-> triplets[i][2]]]

\* the content of a file that cannot be opened or decoded: open() or read() raises
Unreadable == <<"Unreadable">>

\* the return of process_file_pair: None (ok is FALSE) when a calculator
\* raised inside the try block, the metrics of the pair otherwise
FilePairMetrics(gold_triplets, pred_triplets, g, p, tm, em, rm) ==
    LET triplet_metrics == tm
        entity_metrics == em
        relation_metrics == rm
    IN
    IF triplet_metrics.raised \/ entity_metrics.raised \/ relation_metrics.raised
    THEN [ok |-> FALSE]
    ELSE [ok |-> TRUE,
          gold_triplets |-> gold_triplets, pred_triplets |-> pred_triplets,
          gold_entities |-> g.entities, pred_entities |-> p.entities,
          gold_relations |-> g.relations, pred_relations |-> p.relations,
          triplet |-> triplet_metrics,
          entity |-> entity_metrics,
          relation |-> relation_metrics]

\* the three calculators of process_file_pair on the triples, the entities
\* and the relations of the two files
EvaluateParts(gold_triplets, pred_triplets, g, p) ==
    FilePairMetrics(gold_triplets, pred_triplets, g, p,
                    calculate_metrics(gold_triplets, pred_triplets),
                    calculate_entity_metrics(g.entities, p.entities),
                    calculate_relation_metrics(g.relations, p.relations))

\* process_file_pair from the parsed triples of the two files on
EvaluateTriplets(gold_triplets, pred_triplets) ==
    EvaluateParts(gold_triplets, pred_triplets,
                  extract_entities_and_relations(gold_triplets, TRUE),
                  extract_entities_and_relations(pred_triplets, TRUE))

\* process_file_pair on the contents of the two files; ok is FALSE when an
\* exception was caught and None is returned
process_file_pair(gold_content, pred_content) ==
    IF gold_content = Unreadable \/ pred_content = Unreadable THEN [ok |-> FALSE]
    ELSE EvaluateTriplets(parse_triplets(gold_content), parse_triplets(pred_content))

-----------------------------------------------------------------------------
(* Specification of normalize_triplet on arbitrary short strings *)

NormChars == {"a", ",", " ", "\t", "(", ")"}

IdleNorm  == triplet_str = <<>> /\ normalized = None /\ renormalized = None
IdleDedup ==
    /\ entities = <<>> /\ threshold = DefaultThreshold
    /\ unique_entities = None /\ rededup = None
IdleCalc  == calc = None /\ gold = <<>> /\ pred = <<>> /\ metrics = None
IdleCalls ==
    /\ file_text = <<>> /\ parsed = None
    /\ ent1 = <<>> /\ ent2 = <<>> /\ similar = None
IdleClient ==
    /\ client = None /\ api_tokens = <<>> /\ current_token_index = 0
    /\ failed_tokens = {} /\ request_method = None /\ token = None
    /\ max_retries = 0 /\ attempt = 0 /\ taken = <<>> /\ response = None
IdleFolders ==
    /\ gold_dir = <<>> /\ pred_dir = <<>> /\ todo = <<>>
    /\ file_results = <<>> /\ overall = NoDict /\ all_results = NoDict
    /\ report = None /\ save_excel = None /\ evaluated = <<>>

InitNormalize ==
    /\ pc = "start"
    /\ triplet_str \in BoundedSeq(NormChars, MaxStrLen)
    /\ normalized = None /\ renormalized = None
    /\ IdleDedup /\ IdleCalc /\ IdleFolders /\ IdleCalls /\ IdleClient

Normalize ==
    /\ pc = "start"
    /\ normalized' = normalize_triplet(triplet_str)
    /\ pc' = "normalized"
    /\ UNCHANGED <<triplet_str, renormalized, dedupVars, calcVars, folderVars, callVars, clientVars>>

Renormalize ==
    /\ pc = "normalized"
    /\ renormalized' = normalize_triplet(normalized)
    /\ pc' = "renormalized"
    /\ UNCHANGED <<triplet_str, normalized, dedupVars, calcVars, folderVars, callVars, clientVars>>

NextNormalize == Normalize \/ Renormalize

SpecNormalize == InitNormalize /\ [][NextNormalize]_vars

-----------------------------------------------------------------------------
(* Specification of deduplicate_entities on short entity lists *)

\* "T:a", "T:ab", "U:ac" and "axb": entities of two types and an untyped
\* one; "a" is contained in the three other contents, "ab" and "axb" are
\* similar by the ratio alone (0.8), "ac" is similar to neither of them
Entities ==
    { <<"T", ":", "a">>,
      <<"T", ":", "a", "b">>,
      <<"U", ":", "a", "c">>,
      <<"a", "x", "b">> }

\* thresholds 0.5, 0.8 and 1.0
Thresholds == {<<1, 2>>, <<4, 5>>, <<1, 1>>}

InitDedup ==
    /\ pc = "start"
    /\ entities \in BoundedSeq(Entities, MaxEntities)
    /\ threshold \in Thresholds
    /\ unique_entities = None /\ rededup = None
    /\ IdleNorm /\ IdleCalc /\ IdleFolders /\ IdleCalls /\ IdleClient

Deduplicate ==
    /\ pc = "start"
    /\ unique_entities' = deduplicate_entities(entities, threshold)
    /\ pc' = "deduplicated"
    /\ UNCHANGED <<entities, threshold, rededup, normVars, calcVars, folderVars, callVars, clientVars>>

Rededuplicate ==
    /\ pc = "deduplicated"
    /\ rededup' = deduplicate_entities(unique_entities, threshold)
    /\ pc' = "rededuplicated"
    /\ UNCHANGED <<entities, threshold, unique_entities, normVars, calcVars, folderVars, callVars, clientVars>>

NextDedup == Deduplicate \/ Rededuplicate

SpecDedup == InitDedup /\ [][NextDedup]_vars

-----------------------------------------------------------------------------
(* Specification of the three metric calculators on short lists *)

\* (a, r, b), ([a, r, b) with the same normal form, (a, r, c) and (a, s, b)
Triplets ==
    { << <<"a">>, <<"r">>, <<"b">> >>,
      << <<"[", "a">>, <<"r">>, <<"b">> >>,
      << <<"a">>, <<"r">>, <<"c">> >>,
      << <<"a">>, <<"s">>, <<"b">> >> }

Relations == { <<"r">>, <<"s">>, <<"t">> }

Items(c) ==
    IF c = "triplet" THEN Triplets
    ELSE IF c = "entity" THEN Entities ELSE Relations

InitCalc ==
    /\ pc = "start"
    /\ calc \in {"triplet", "entity", "relation"}
    /\ gold \in BoundedSeq(Items(calc), MaxGold)
    /\ pred \in BoundedSeq(Items(calc), MaxPred)
    /\ metrics = None
    /\ IdleNorm /\ IdleDedup /\ IdleFolders /\ IdleCalls /\ IdleClient

\* a call returns its dictionary, or leaves by the exception a division raised
Return(r) ==
    /\ metrics' = r
    /\ gold' = r.gold_arg
    /\ pred' = r.pred_arg
    /\ pc' = IF r.raised THEN "raised" ELSE "returned"
    /\ UNCHANGED <<calc, normVars, dedupVars, folderVars, callVars, clientVars>>

CalculateMetrics ==
    /\ pc = "start" /\ calc = "triplet"
    /\ Return(calculate_metrics(gold, pred))

CalculateEntityMetrics ==
    /\ pc = "start" /\ calc = "entity"
    /\ Return(calculate_entity_metrics(gold, pred))

CalculateRelationMetrics ==
    /\ pc = "start" /\ calc = "relation"
    /\ Return(calculate_relation_metrics(gold, pred))

NextCalc == CalculateMetrics \/ CalculateEntityMetrics \/ CalculateRelationMetrics

SpecCalc == InitCalc /\ [][NextCalc]_vars

-----------------------------------------------------------------------------
(* Specification of process_folders over two small folders *)

\* "(T:ab, r, U:ac)"
TextA ==
    <<"(", "T", ":", "a", "b", ",", " ", "r", ",", " ", "U", ":", "a", "c", ")">>

\* "(U:ac, s, axb)"
TextB ==
    <<"(", "U", ":", "a", "c", ",", " ", "s", ",", " ", "a", "x", "b", ")">>

\* "[y,t,z]\n(y z, t , z) (r,s)": two triples that share their entities up
\* to similarity, and a group that is no triple
TextC ==
    <<"[", "y", ",", "t", ",", "z", "]", "\n",
      "(", "y", " ", "z", ",", " ", "t", " ", ",", " ", "z", ")", " ",
      "(", "r", ",", "s", ")">>

Texts == {TextA, TextB, TextC}

\* a name that is not in the folder
Absent == <<"Absent">>

\* file names: <<i, ".txt">> stands for the name "f<i>.txt", and there is
\* one name without the .txt suffix, a file that is in both folders
TxtNames == {<<i, ".txt">> : i \in 1..MaxFiles}
OtherName == <<0, ".md">>
FileNames == TxtNames \cup {OtherName}

\* what a folder can hold under a name
Contents == Texts \cup {Unreadable, Absent}

Folders == {d \in [FileNames -> Contents] : d[OtherName] = TextA}

\* process_file_pair on every two contents, evaluated once: the call of
\* line 593 looks its result up here
FilePairs == [g \in Contents |-> [p \in Contents |-> process_file_pair(g, p)]]

\* os.listdir(folder)
listdir(folder) == {f \in DOMAIN folder : folder[f] # Absent}

\* A slip: the suffix test is left out, every listed name counts.
IsAnyFile(f) == f[2] \in {".txt", ".md"}

\* f.endswith('.txt')
IsTxt(f) == f[2] = ".txt"

RECURSIVE sorted(_)
\* sorted(names)
sorted(names) ==
    IF names = {} THEN <<>>
    ELSE LET first == CHOOSE f \in names : \A g \in names : f[1] <= g[1]
         IN  <<first>> \o sorted(names \ {first})

NoCounts == [tp |-> 0, fp |-> 0, fn |-> 0]

\* A copy-and-paste slip: the fp total is fed from the fn count of the file.
AddCountsFnTwice(total, m) ==
    [tp |-> total.tp + m.tp, fp |-> total.fp + m.fn, fn |-> total.fn + m.fn]

\* overall[...]['tp'] += metrics[...]['tp'], and the same for fp and fn
AddCounts(total, m) ==
    [tp |-> total.tp + m.tp, fp |-> total.fp + m.fp, fn |-> total.fn + m.fn]

\* A slip: the entry of a label is assigned, not added to.
AssignTable(total, stats) ==
    [t \in DOMAIN total \cup DOMAIN stats |->
        IF t \in DOMAIN stats
        THEN [tp |-> stats[t].tp, fp |-> stats[t].fp, fn |-> stats[t].fn]
        ELSE total[t]]

\* the loops that add the type table of one file to the corpus table
AddTable(total, stats) ==
    [t \in DOMAIN total \cup DOMAIN stats |->
        IF t \in DOMAIN stats
        THEN AddCounts(IF t \in DOMAIN total THEN total[t] ELSE NoCounts, stats[t])
        ELSE total[t]]

\* the prefix '中成药:' of the designated entity type
CmPrefix == <<"T", ":">>

\* entity.startswith('中成药:')
IsCm(entity) == Len(entity) >= Len(CmPrefix) /\ SubSeq(entity, 1, Len(CmPrefix)) = CmPrefix

InitFolders ==
    /\ pc = "start"
    /\ gold_dir \in Folders
    /\ pred_dir \in Folders
    /\ todo = <<>>
    /\ file_results = <<>>
    /\ overall = NoDict
    /\ all_results = NoDict
    /\ report = None
    /\ save_excel \in BOOLEAN
    /\ evaluated = <<>>
    /\ IdleNorm /\ IdleDedup /\ IdleCalc /\ IdleCalls /\ IdleClient

\* lines 557-581 of process_folders: the common .txt names, the early
\* return when there is none, the initial totals
ListFolders ==
    /\ pc = "start"
    /\ LET gold_files == {f \in listdir(gold_dir) : IsTxt(f)}
           pred_files == {f \in listdir(pred_dir) : IsTxt(f)}
           common_files == gold_files \cap pred_files
       IN  IF common_files = {}
           THEN /\ pc' = "done"
                /\ UNCHANGED <<todo, overall>>
           ELSE /\ pc' = "loop"
                /\ todo' = sorted(common_files)
                /\ overall' = [triplet |-> NoCounts, entity |-> NoCounts,
                               relation |-> NoCounts,
                               entity_type_stats |-> <<>>,
                               relation_type_stats |-> <<>>,
                               cm_fn_entities |-> <<>>, cm_fp_entities |-> <<>>]
    /\ UNCHANGED <<gold_dir, pred_dir, file_results, all_results, report,
                   save_excel, evaluated, normVars, dedupVars, calcVars, callVars, clientVars>>

\* lines 663-687 of process_folders: the counts, the type tables and the
\* unmatched entities of the designated type of one file, added to the totals
Accumulate(total, m) ==
    [triplet |-> AddCounts(total.triplet, m.triplet),
     entity |-> AddCounts(total.entity, m.entity),
     relation |-> AddCounts(total.relation, m.relation),
     entity_type_stats |-> AddTable(total.entity_type_stats, m.entity.type_stats),
     relation_type_stats |->
         AddTable(total.relation_type_stats, m.relation.type_stats),
     cm_fn_entities |-> total.cm_fn_entities
         \o SelectSeq(m.entity.unmatched_gold, IsCm),
     cm_fp_entities |-> total.cm_fp_entities
         \o SelectSeq(m.entity.unmatched_pred, IsCm)]

\* the body of the loop for file_name, whose pair evaluated to metrics:
\* a pair that returned None is skipped
RecordFile(file_name, m) ==
    IF m.ok
    THEN /\ file_results' =
               [f \in DOMAIN file_results \cup {file_name} |->
                   IF f = file_name THEN m ELSE file_results[f]]
         /\ overall' = Accumulate(overall, m)
    ELSE UNCHANGED <<file_results, overall>>

\* A slip: the exception of a failing pair is not caught, it ends the run.
ProcessNextFileAbort ==
    /\ pc = "loop" /\ todo # <<>>
    /\ IF process_file_pair(gold_dir[Head(todo)], pred_dir[Head(todo)]).ok
       THEN /\ RecordFile(Head(todo),
                    process_file_pair(gold_dir[Head(todo)], pred_dir[Head(todo)]))
            /\ todo' = Tail(todo)
            /\ pc' = "loop"
       ELSE /\ UNCHANGED <<file_results, overall>>
            /\ todo' = <<>>
            /\ pc' = "done"
    /\ evaluated' = Append(evaluated, Head(todo))
    /\ UNCHANGED <<gold_dir, pred_dir, all_results, report, save_excel,
                   normVars, dedupVars, calcVars, callVars, clientVars>>

\* one iteration of the loop over sorted(common_files)
ProcessNextFile ==
    /\ pc = "loop" /\ todo # <<>>
    /\ RecordFile(Head(todo), FilePairs[gold_dir[Head(todo)]][pred_dir[Head(todo)]])
    /\ evaluated' = Append(evaluated, Head(todo))
    /\ todo' = Tail(todo)
    /\ pc' = "loop"
    /\ UNCHANGED <<gold_dir, pred_dir, all_results, report, save_excel,
                   normVars, dedupVars, calcVars, callVars, clientVars>>

\* tp/fp/fn of a running total with precision, recall and f1
WithMetrics(counts) ==
    LET m == Derived(counts.tp, counts.fp, counts.fn)
    IN  [tp |-> counts.tp, fp |-> counts.fp, fn |-> counts.fn,
         precision |-> m.precision, recall |-> m.recall, f1 |-> m.f1]

\* A slip: the failure of the report writer is not caught, so the exception
\* leaves process_folders before the return statement.
FinishUncaught ==
    /\ pc = "loop" /\ todo = <<>>
    /\ overall' = [overall EXCEPT
                      !.cm_fn_entities = deduplicate_entities(@, DefaultThreshold),
                      !.cm_fp_entities = deduplicate_entities(@, DefaultThreshold)]
    /\ report' \in IF save_excel THEN {"written", "failed"} ELSE {"not requested"}
    /\ IF report' = "failed"
       THEN pc' = "raised" /\ all_results' = NoDict
       ELSE /\ pc' = "done"
            /\ all_results' =
                  [file_results |-> file_results,
                   overall_triplet |-> WithMetrics(overall.triplet),
                   overall_entity |-> WithMetrics(overall.entity),
                   overall_relation |-> WithMetrics(overall.relation),
                   overall_entity_type_stats |-> WithDerived(overall.entity_type_stats),
                   overall_relation_type_stats |->
                       WithDerived(overall.relation_type_stats)]
    /\ UNCHANGED <<gold_dir, pred_dir, todo, file_results, save_excel, evaluated,
                   normVars, dedupVars, calcVars, callVars, clientVars>>

\* lines 700-898 of process_folders: the corpus metrics, the report, the return
Finish ==
    /\ pc = "loop" /\ todo = <<>>
    /\ overall' = [overall EXCEPT
                      !.cm_fn_entities = deduplicate_entities(@, DefaultThreshold),
                      !.cm_fp_entities = deduplicate_entities(@, DefaultThreshold)]
    /\ all_results' =
          [file_results |-> file_results,
           overall_triplet |-> WithMetrics(overall.triplet),
           overall_entity |-> WithMetrics(overall.entity),
           overall_relation |-> WithMetrics(overall.relation),
           overall_entity_type_stats |-> WithDerived(overall.entity_type_stats),
           overall_relation_type_stats |-> WithDerived(overall.relation_type_stats)]
    /\ report' \in IF save_excel THEN {"written", "failed"} ELSE {"not requested"}
    /\ pc' = "done"
    /\ UNCHANGED <<gold_dir, pred_dir, todo, file_results, save_excel, evaluated,
                   normVars, dedupVars, calcVars, callVars, clientVars>>

Next == ListFolders \/ ProcessNextFile \/ Finish

Init == InitFolders

Spec == Init /\ [][Next]_vars

\* process_folders is one sequential call: it takes its next step as long
\* as it has one (every step changes pc or shortens todo)
FairSpec == Spec /\ WF_<<pc, todo>>(Next)

-----------------------------------------------------------------------------
(* Specification of parse_triplets on texts put together from pieces *)

MaxPieces == 5      \* most pieces a parsed text is put together from

\* pieces of text: brackets, comma-separated segments with and without
\* blanks around them, and a whole group in square brackets
Pieces ==
    { <<"(">>, <<")">>, <<"[", "a", ",", "b", ",", "c", "]">>,
      <<"a", ",">>, <<" ", "b", " ", ",">>, <<"c", ",", "d">> }

RECURSIVE Concat(_)
\* the pieces written one after the other
Concat(ps) == IF ps = <<>> THEN <<>> ELSE Head(ps) \o Concat(Tail(ps))

InitParse ==
    /\ pc = "start"
    /\ \E ps \in BoundedSeq(Pieces, MaxPieces) : file_text = Concat(ps)
    /\ parsed = None
    /\ ent1 = <<>> /\ ent2 = <<>> /\ similar = None
    /\ IdleNorm /\ IdleDedup /\ IdleCalc /\ IdleFolders /\ IdleClient

Parse ==
    /\ pc = "start"
    /\ parsed' = parse_triplets(file_text)
    /\ pc' = "parsed"
    /\ UNCHANGED <<file_text, ent1, ent2, similar,
                   normVars, dedupVars, calcVars, folderVars, clientVars>>

NextParse == Parse

SpecParse == InitParse /\ [][NextParse]_vars

-----------------------------------------------------------------------------
(* Specification of is_similar_entity on two short entities *)

MaxContentLen == 2  \* longest entity text after the optional type prefix

\* entity strings: no prefix, or a type and a colon, then a short text that
\* may itself hold a colon
SimEntities ==
    {prefix \o text : prefix \in {<<>>, <<"a", ":">>, <<"b", ":">>},
                      text \in BoundedSeq({"a", "b", ":"}, MaxContentLen)}

\* thresholds handed to is_similar_entity: 0.5, the default 0.8, and 1.5,
\* which no ratio reaches
SimThresholds == {<<1, 2>>, DefaultThreshold, <<3, 2>>}

InitSimilar ==
    /\ pc = "start"
    /\ ent1 \in SimEntities
    /\ ent2 \in SimEntities
    /\ threshold \in SimThresholds
    /\ similar = None
    /\ entities = <<>> /\ unique_entities = None /\ rededup = None
    /\ file_text = <<>> /\ parsed = None
    /\ IdleNorm /\ IdleCalc /\ IdleFolders /\ IdleClient

Compare ==
    /\ pc = "start"
    /\ similar' = is_similar_entity(ent1, ent2, threshold)
    /\ pc' = "compared"
    /\ UNCHANGED <<ent1, ent2, file_text, parsed,
                   normVars, dedupVars, calcVars, folderVars, clientVars>>

NextSimilar == Compare

SpecSimilar == InitSimilar /\ [][NextSimilar]_vars

-----------------------------------------------------------------------------
(* Specification of calculate_entity_metrics on lists whose order matters *)

MaxOrderLen == 2    \* longest list of the order-dependence specification

\* "T:ab", "U:ac", "abc" and "axb": "abc" contains "ab" and reaches the
\* ratio 0.8 with "ac", "ab" and "axb" reach the ratio 0.8, and no other
\* two of them are similar: a chain ac - abc - ab - axb
OrderEntities ==
    { <<"T", ":", "a", "b">>,
      <<"U", ":", "a", "c">>,
      <<"a", "b", "c">>,
      <<"a", "x", "b">> }

InitOrder ==
    /\ pc = "start"
    /\ calc = "entity"
    /\ gold \in BoundedSeq(OrderEntities, MaxOrderLen)
    /\ pred \in BoundedSeq(OrderEntities, MaxOrderLen)
    /\ metrics = None
    /\ IdleNorm /\ IdleDedup /\ IdleFolders /\ IdleCalls /\ IdleClient

NextOrder == CalculateEntityMetrics

SpecOrder == InitOrder /\ [][NextOrder]_vars

-----------------------------------------------------------------------------
(* Specification of the two calculators that match by equality, on lists   *)
(* that are evaluated in every order                                       *)

MaxReorderLen == 2  \* longest list of the reordering specification

\* (a, r, b) and ([a, r, b) with the same normal form, and (a, s, b); the
\* relations r and s
ReorderItems(c) ==
    IF c = "triplet"
    THEN { << <<"a">>, <<"r">>, <<"b">> >>,
           << <<"[", "a">>, <<"r">>, <<"b">> >>,
           << <<"a">>, <<"s">>, <<"b">> >> }
    ELSE { <<"r">>, <<"s">> }

InitReorder ==
    /\ pc = "start"
    /\ calc \in {"triplet", "relation"}
    /\ gold \in BoundedSeq(ReorderItems(calc), MaxReorderLen)
    /\ pred \in BoundedSeq(ReorderItems(calc), MaxReorderLen)
    /\ metrics = None
    /\ IdleNorm /\ IdleDedup /\ IdleFolders /\ IdleCalls /\ IdleClient

NextReorder == CalculateMetrics \/ CalculateRelationMetrics

SpecReorder == InitReorder /\ [][NextReorder]_vars

-----------------------------------------------------------------------------
(* The token rotation of the two API clients (src/doubao.py, src/deepseek.py) *)

MaxTokens == 3      \* longest configured token list
MaxRetries == 3     \* largest max_retries handed to make_api_request

TokenNames == {"a", "b"}

\* the lists of API tokens a DrugProcessor is constructed with; the main
\* programs strip the configured tokens and remove none that occurs twice
TokenLists == BoundedSeq(TokenNames, MaxTokens)

Range(list) == {list[i] : i \in 1..Len(list)}

RECURSIVE get_next_token_doubao(_, _, _, _)
\* get_next_token of doubao.py, index = self.current_token_index, failed =
\* self.failed_tokens, depth = the number of recursive calls so far.  After
\* Len(tokens) recursive calls every position has been visited and found
\* failed, and failed does not change during the call: the recursion never
\* ends and Python raises RecursionError
get_next_token_doubao(tokens, index, failed, depth) ==
    IF Cardinality(failed) >= Len(tokens)
    THEN [raised |-> FALSE, token |-> None, index |-> index]
    ELSE LET t == tokens[index + 1]
             next == (index + 1) % Len(tokens)
         IN  IF t \in failed
             THEN IF depth >= Len(tokens)
                  THEN [raised |-> TRUE, token |-> None, index |-> next]
                  ELSE get_next_token_doubao(tokens, next, failed, depth + 1)
             ELSE [raised |-> FALSE, token |-> t, index |-> next]

\* get_next_token of deepseek.py; indexing an empty list raises IndexError
get_next_token_deepseek(tokens, index) ==
    IF tokens = <<>>
    THEN [raised |-> TRUE, token |-> None, index |-> index]
    ELSE [raised |-> FALSE, token |-> tokens[index + 1],
          index |-> (index + 1) % Len(tokens)]

\* current_token_index after a call of get_next_token: the index the call
\* left, or, after a RecursionError, any position, the number of frames that
\* fit on the stack deciding where the rotation stopped
IndexAfter(r) ==
    IF r.raised /\ api_tokens # <<>> THEN 0..(Len(api_tokens) - 1) ELSE {r.index}

InitClient ==
    /\ api_tokens \in TokenLists
    /\ current_token_index = 0
    /\ failed_tokens = {}
    /\ token = None
    /\ max_retries = 0 /\ attempt = 0 /\ taken = <<>> /\ response = None
    /\ IdleNorm /\ IdleDedup /\ IdleCalc /\ IdleFolders /\ IdleCalls

-----------------------------------------------------------------------------
(* Specification of get_next_token and mark_token_failed of doubao.py,     *)
(* called in any order                                                     *)

InitTokens ==
    /\ pc = "start"
    /\ client = "doubao"
    /\ request_method = "doubao"
    /\ InitClient

GetNextToken ==
    /\ LET r == get_next_token_doubao(api_tokens, current_token_index, failed_tokens, 0)
       IN  /\ token' = IF r.raised THEN token ELSE r.token
           /\ current_token_index' \in IndexAfter(r)
           /\ pc' = IF r.raised THEN "raised" ELSE "returned"
    /\ UNCHANGED <<client, api_tokens, failed_tokens, request_method, max_retries,
                   attempt, taken, response,
                   normVars, dedupVars, calcVars, folderVars, callVars>>

\* mark_token_failed with one of the configured tokens
MarkTokenFailed ==
    /\ \E t \in Range(api_tokens) : failed_tokens' = failed_tokens \cup {t}
    /\ pc' = "marked"
    /\ UNCHANGED <<client, api_tokens, current_token_index, request_method, token,
                   max_retries, attempt, taken, response,
                   normVars, dedupVars, calcVars, folderVars, callVars>>

NextTokens == GetNextToken \/ MarkTokenFailed

SpecTokens == InitTokens /\ [][NextTokens]_vars

-----------------------------------------------------------------------------
(* Specification of make_api_request of the two clients, called again and  *)
(* again on one DrugProcessor, one step per attempt                        *)

\* the content of a successful chat completion
Replies == {"reply x", "reply y"}

\* what can become of an attempt that got a token: the request method is
\* not supported, no client could be made, the request raised (with or
\* without a sign of a rejected token in the message), or it succeeded
FailedRequest == {"error", "auth error"}
NotSent == {"unsupported", "no client"}

\* the entry of an attempt in taken: r.index is the position after the token
LogEntry(r, result) ==
    [index |-> (r.index + Len(api_tokens) - 1) % Len(api_tokens),
     token |-> r.token, result |-> result]

\* A slip: the loop runs once more than max_retries.
LoopDoneLate(k, n) == k > n

\* range(max_retries) is exhausted before attempt k
LoopDone(k, n) == k >= n

InitRequest ==
    /\ pc = "start"
    /\ \/ client = "doubao" /\ request_method \in {"doubao", "other"}
       \/ client = "deepseek" /\ request_method = "deepseek"
    /\ InitClient

\* a call of make_api_request begins, on a new processor or after an
\* earlier call has returned
StartRequest ==
    /\ pc \in {"start", "returned"}
    /\ max_retries' \in 0..MaxRetries
    /\ attempt' = 0
    /\ taken' = <<>>
    /\ response' = None
    /\ pc' = "loop"
    /\ UNCHANGED <<client, api_tokens, current_token_index, failed_tokens,
                   request_method, token,
                   normVars, dedupVars, calcVars, folderVars, callVars>>

\* the rest of an attempt of doubao.py once get_next_token has returned r
DoubaoAfterToken(r) ==
    IF r.raised
    THEN \* RecursionError is caught; its message names no rejected token
         /\ attempt' = attempt + 1
         /\ pc' = "loop"
         /\ UNCHANGED <<failed_tokens, taken, response>>
    ELSE IF r.token = None
    THEN /\ response' = None
         /\ pc' = "returned"
         /\ UNCHANGED <<failed_tokens, taken, attempt>>
    ELSE IF request_method # "doubao"
    THEN /\ taken' = Append(taken, LogEntry(r, "unsupported"))
         /\ response' = None
         /\ pc' = "returned"
         /\ UNCHANGED <<failed_tokens, attempt>>
    ELSE \E result \in {"no client"} \cup FailedRequest \cup Replies :
            /\ taken' = Append(taken, LogEntry(r, result))
            /\ failed_tokens' = IF result = "auth error"
                                THEN failed_tokens \cup {r.token} ELSE failed_tokens
            /\ IF result \in FailedRequest
               THEN attempt' = attempt + 1 /\ pc' = "loop" /\ response' = response
               ELSE /\ response' = IF result \in Replies THEN result ELSE None
                    /\ pc' = "returned"
                    /\ attempt' = attempt

AttemptDoubao ==
    /\ pc = "loop" /\ client = "doubao"
    /\ ~LoopDone(attempt, max_retries)
    /\ LET r == get_next_token_doubao(api_tokens, current_token_index, failed_tokens, 0)
       IN  /\ token' = IF r.raised THEN token ELSE r.token
           /\ current_token_index' \in IndexAfter(r)
           /\ DoubaoAfterToken(r)
    /\ UNCHANGED <<client, api_tokens, request_method, max_retries,
                   normVars, dedupVars, calcVars, folderVars, callVars>>

\* the rest of an attempt of deepseek.py once get_next_token has returned r
DeepseekAfterToken(r) ==
    IF r.raised
    THEN \* IndexError of an empty token list is caught
         /\ attempt' = attempt + 1
         /\ pc' = "loop"
         /\ UNCHANGED <<taken, response>>
    ELSE \E result \in {"no client", "error"} \cup Replies :
            /\ taken' = Append(taken, LogEntry(r, result))
            /\ IF result \in Replies
               THEN response' = result /\ pc' = "returned" /\ attempt' = attempt
               ELSE response' = response /\ pc' = "loop" /\ attempt' = attempt + 1

AttemptDeepseek ==
    /\ pc = "loop" /\ client = "deepseek"
    /\ ~LoopDone(attempt, max_retries)
    /\ LET r == get_next_token_deepseek(api_tokens, current_token_index)
       IN  /\ token' = IF r.raised THEN token ELSE r.token
           /\ current_token_index' = r.index
           /\ DeepseekAfterToken(r)
    /\ UNCHANGED <<client, api_tokens, failed_tokens, request_method, max_retries,
                   normVars, dedupVars, calcVars, folderVars, callVars>>

\* the loop is over without a return: return None
GiveUp ==
    /\ pc = "loop"
    /\ LoopDone(attempt, max_retries)
    /\ response' = None
    /\ pc' = "returned"
    /\ UNCHANGED <<client, api_tokens, current_token_index, failed_tokens,
                   request_method, token, max_retries, attempt, taken,
                   normVars, dedupVars, calcVars, folderVars, callVars>>

NextRequest == StartRequest \/ AttemptDoubao \/ AttemptDeepseek \/ GiveUp

SpecRequest == InitRequest /\ [][NextRequest]_vars

-----------------------------------------------------------------------------
(* C6: normalising an already normalised string returns it unchanged. *)
NormalizeIdempotent ==
    pc = "renormalized" => renormalized = normalized

\* a string that normalisation really rewrites has been normalised twice
NormalizeIdempotentWitness ==
    /\ pc = "renormalized"
    /\ normalized # triplet_str
    /\ Len(normalized) >= 3
    /\ \E i \in 1..Len(triplet_str) : triplet_str[i] = ","
    /\ \E i \in 1..Len(triplet_str) : triplet_str[i] \in Brackets

(* C7: deduplicate_entities applied to its own output returns that output, *)
(* the same items in the same order, whatever the threshold.               *)
DedupIdempotent ==
    pc = "rededuplicated" => rededup = unique_entities

\* a list from which the first run dropped something and kept several items
DedupIdempotentWitness ==
    /\ pc = "rededuplicated"
    /\ Len(unique_entities) < Len(entities)
    /\ Len(unique_entities) >= 2

\* the sequence of the items of ents at the index set K, in index order
RECURSIVE ItemsAt(_, _, _)
ItemsAt(ents, K, i) ==
    IF i > Len(ents) THEN <<>>
    ELSE IF i \in K THEN <<ents[i]>> \o ItemsAt(ents, K, i + 1)
         ELSE ItemsAt(ents, K, i + 1)

(* C8: the output of deduplicate_entities is the input restricted to a set *)
(* of kept positions, in input order, and a position is dropped exactly    *)
(* when its entity is similar to an entity kept before it.                 *)
DedupFirstSeenWins ==
    pc \in {"deduplicated", "rededuplicated"} =>
        /\ Len(unique_entities) <= Len(entities)
        /\ \E K \in SUBSET (1..Len(entities)) :
              /\ unique_entities = ItemsAt(entities, K, 1)
              /\ \A i \in 1..Len(entities) :
                    i \notin K <=>
                        \E j \in K : j < i /\ is_similar_entity(entities[i], entities[j], threshold)

\* an entity was dropped although it differs from every kept one, and a
\* later entity was kept
DedupFirstSeenWinsWitness ==
    /\ pc = "deduplicated"
    /\ \E i \in 1..Len(entities) :
          /\ \A k \in 1..Len(unique_entities) : unique_entities[k] # entities[i]
          /\ \E j \in (i + 1)..Len(entities) :
                \E k \in 1..Len(unique_entities) : unique_entities[k] = entities[j]


-----------------------------------------------------------------------------
\* the type label a calculator gives an item
TypeOf(c, item) ==
    IF c = "entity" THEN extract_entity_type(item) ELSE extract_relation_type(item)

CountOfType(c, list, t) == Cardinality({i \in 1..Len(list) : TypeOf(c, list[i]) = t})

Matched == {i \in 1..Len(metrics.matched_pos) : metrics.matched_pos[i] # 0}

(* C1: the counts a calculator returns satisfy tp + fn = length of the     *)
(* gold list and tp + fp = length of the predicted list.                   *)
CountsAddUp ==
    pc = "returned" =>
        /\ metrics.tp + metrics.fn = Len(gold)
        /\ metrics.tp + metrics.fp = Len(pred)

\* a call with matches, misses and left-over predictions at once
CountsAddUpWitness ==
    /\ pc = "returned"
    /\ metrics.tp >= 1 /\ metrics.fn >= 1 /\ metrics.fp >= 1

MatchingOneToOne ==
    pc = "returned" =>
        /\ Len(metrics.matched_pos) = Len(gold)
        /\ \A i \in Matched : metrics.matched_pos[i] \in 1..Len(pred)
        /\ \A i, j \in Matched :
              i # j => metrics.matched_pos[i] # metrics.matched_pos[j]
        /\ metrics.tp = Cardinality(Matched)
        /\ metrics.tp <= Len(gold) /\ metrics.tp <= Len(pred)

\* two gold items that the predicate links to the same prediction: the
\* second one had to take another position or go unmatched
MatchingOneToOneWitness ==
    /\ pc = "returned"
    /\ \E i, j \in 1..Len(gold) :
          /\ i < j /\ gold[i] = gold[j]
          /\ metrics.matched_pos[i] # 0
          /\ metrics.matched_pos[j] = 0
    /\ metrics.fp >= 1

(* C9: no calculator raises, whatever the lists; precision is 0 when       *)
(* tp + fp = 0, recall is 0 when tp + fn = 0, F1 is 0 when precision +     *)
(* recall = 0, overall and in every type bucket; one gold item against an  *)
(* empty prediction gives tp = 0, fn = 1, fp = 0 and three zero metrics.   *)
MetricsTotal ==
    /\ pc # "raised"
    /\ pc = "returned" =>
          /\ metrics.tp + metrics.fp = 0 => metrics.precision = Zero
          /\ metrics.tp + metrics.fn = 0 => metrics.recall = Zero
          /\ (metrics.precision = Zero /\ metrics.recall = Zero) => metrics.f1 = Zero
          /\ metrics.precision[2] > 0 /\ metrics.recall[2] > 0 /\ metrics.f1[2] > 0
          /\ calc # "triplet" =>
                \A t \in DOMAIN metrics.type_stats :
                    LET row == metrics.type_stats[t]
                    IN  /\ row.tp + row.fp = 0 => row.precision = Zero
                        /\ row.tp + row.fn = 0 => row.recall = Zero
                        /\ (row.precision = Zero /\ row.recall = Zero) => row.f1 = Zero
                        /\ row.precision[2] > 0 /\ row.recall[2] > 0 /\ row.f1[2] > 0
          /\ (Len(gold) = 1 /\ Len(pred) = 0) =>
                /\ metrics.tp = 0 /\ metrics.fn = 1 /\ metrics.fp = 0
                /\ metrics.precision = Zero /\ metrics.recall = Zero
                /\ metrics.f1 = Zero

\* the scenario of one gold triple against an empty prediction has returned
MetricsTotalWitness ==
    /\ pc = "returned" /\ calc = "triplet"
    /\ Len(gold) = 1 /\ Len(pred) = 0
    /\ metrics.precision = Zero

(* C10: a call of a metric calculator leaves the gold list and the         *)
(* predicted list it was given unchanged.                                  *)
InputsUnchanged ==
    [][pc = "start" => (gold' = gold /\ pred' = pred)]_vars

\* an entity call that consumed a prediction and left another one over
InputsUnchangedWitness ==
    /\ pc = "returned" /\ calc = "entity"
    /\ metrics.tp >= 1 /\ metrics.fp >= 1
    /\ Len(metrics.unmatched_pred) < Len(pred)


-----------------------------------------------------------------------------
Levels == {"triplet", "entity", "relation"}

\* process_folders has returned a corpus result
Returned == pc = "done" /\ report # None

\* the .txt names in both folders whose two files could be read
Processable ==
    {f \in TxtNames : /\ gold_dir[f] \notin {Absent, Unreadable}
                      /\ pred_dir[f] \notin {Absent, Unreadable}}

RECURSIVE SumOverFiles(_, _, _)
\* the sum over the files in fs of the count named field at the given level
SumOverFiles(fs, level, field) ==
    IF fs = {} THEN 0
    ELSE LET f == CHOOSE g \in fs : TRUE
         IN  file_results[f][level][field] + SumOverFiles(fs \ {f}, level, field)

RECURSIVE SumOverFilesOfType(_, _, _, _)
\* the same for one type label, a file without the label counting as zero
SumOverFilesOfType(fs, level, t, field) ==
    IF fs = {} THEN 0
    ELSE LET f == CHOOSE g \in fs : TRUE
             stats == file_results[f][level].type_stats
         IN  (IF t \in DOMAIN stats THEN stats[t][field] ELSE 0)
                 + SumOverFilesOfType(fs \ {f}, level, t, field)

OverallOf(level) ==
    IF level = "triplet" THEN all_results.overall_triplet
    ELSE IF level = "entity" THEN all_results.overall_entity
    ELSE all_results.overall_relation

TypeTableOf(level) ==
    IF level = "entity" THEN all_results.overall_entity_type_stats
    ELSE all_results.overall_relation_type_stats

\* precision, recall and f1 of row are the guarded quotients of its counts
RatiosFromCounts(row) ==
    /\ row.precision[2] > 0 /\ row.recall[2] > 0 /\ row.f1[2] > 0
    /\ row.precision[1] * (row.tp + row.fp) = row.tp * row.precision[2]
    /\ row.recall[1] * (row.tp + row.fn) = row.tp * row.recall[2]
    /\ row.f1[1] * (2 * row.tp + row.fp + row.fn) = 2 * row.tp * row.f1[2]
    /\ row.tp = 0 => (row.precision = Zero /\ row.recall = Zero /\ row.f1 = Zero)

(* C5: when process_folders returns, every corpus total and every entry of *)
(* the two type tables holds the sums of tp, fp and fn over the files that *)
(* were processed, a file without the label adding zero, and precision,    *)
(* recall and F1 are the guarded quotients of the summed counts.           *)
TotalsAreSums ==
    Returned =>
        LET fs == DOMAIN file_results
        IN  /\ fs = Processable
            /\ \A level \in Levels :
                  /\ \A field \in {"tp", "fp", "fn"} :
                        OverallOf(level)[field] = SumOverFiles(fs, level, field)
                  /\ RatiosFromCounts(OverallOf(level))
            /\ \A level \in {"entity", "relation"} :
                  /\ DOMAIN TypeTableOf(level) =
                         UNION {DOMAIN file_results[f][level].type_stats : f \in fs}
                  /\ \A t \in DOMAIN TypeTableOf(level) :
                        /\ \A field \in {"tp", "fp", "fn"} :
                              TypeTableOf(level)[t][field]
                                  = SumOverFilesOfType(fs, level, t, field)
                        /\ RatiosFromCounts(TypeTableOf(level)[t])

\* two files were processed, a relation label occurs in one of them only,
\* one file has no entity match and the corpus precision is a proper fraction
TotalsAreSumsWitness ==
    /\ Returned
    /\ Cardinality(DOMAIN file_results) >= 2
    /\ \E f, g \in DOMAIN file_results :
          \E t \in DOMAIN file_results[f].relation.type_stats :
              t \notin DOMAIN file_results[g].relation.type_stats
    /\ all_results.overall_entity.precision[2] > 1
    /\ \E f \in DOMAIN file_results : file_results[f].entity.tp = 0


-----------------------------------------------------------------------------
GoldOf(m, level) ==
    IF level = "triplet" THEN m.gold_triplets
    ELSE IF level = "entity" THEN m.gold_entities ELSE m.gold_relations

PredOf(m, level) ==
    IF level = "triplet" THEN m.pred_triplets
    ELSE IF level = "entity" THEN m.pred_entities ELSE m.pred_relations

RECURSIVE Flattened(_, _, _)
\* the gold (side = "gold") or predicted items of the processed files named
\* in the sequence fs, one file after the other
Flattened(fs, level, side) ==
    IF fs = <<>> THEN <<>>
    ELSE (IF side = "gold" THEN GoldOf(file_results[Head(fs)], level)
          ELSE PredOf(file_results[Head(fs)], level))
             \o Flattened(Tail(fs), level, side)

\* the matcher of a level run once on the flattened collections
FlattenedRun(level) ==
    LET fs == sorted(DOMAIN file_results)
        g == Flattened(fs, level, "gold")
        p == Flattened(fs, level, "pred")
    IN  IF level = "triplet" THEN calculate_metrics(g, p)
        ELSE IF level = "entity" THEN calculate_entity_metrics(g, p)
        ELSE calculate_relation_metrics(g, p)

\* the equality predicate of a level
MatchesAt(level, x, y) ==
    IF level = "triplet"
    THEN normalize_triplet(FormatTriplet(x)) = normalize_triplet(FormatTriplet(y))
    ELSE IF level = "entity" THEN is_similar_entity(x, y, DefaultThreshold)
    ELSE x = y

\* no gold item of a processed file matches a predicted item of another one
NoCrossFileMatch(level) ==
    \A f, g \in DOMAIN file_results :
        f # g =>
            LET gs == GoldOf(file_results[f], level)
                ps == PredOf(file_results[g], level)
            IN  \A i \in 1..Len(gs) : \A j \in 1..Len(ps) :
                    ~MatchesAt(level, gs[i], ps[j])

SameCounts(a, b) == a.tp = b.tp /\ a.fp = b.fp /\ a.fn = b.fn

(* C4, as stated: at every granularity the summed corpus counts, and so    *)
(* precision, recall and F1, equal those of the matcher run once on the    *)
(* flattened gold items against the flattened predicted items.             *)
SummedEqualsFlattened ==
    Returned =>
        \A level \in Levels :
            /\ SameCounts(OverallOf(level), FlattenedRun(level))
            /\ OverallOf(level).precision = FlattenedRun(level).precision
            /\ OverallOf(level).recall = FlattenedRun(level).recall
            /\ OverallOf(level).f1 = FlattenedRun(level).f1

(* C4, amended: the summed counts agree with the flattened run in tp + fn  *)
(* (the number of gold items) and in tp + fp (the number of predicted      *)
(* items) at every granularity; tp, fp, fn and the three metrics agree     *)
(* whenever no gold item of one file matches a predicted item of another   *)
(* file under the predicate of that granularity.                           *)
SummedEqualsFlattenedAmended ==
    Returned =>
        \A level \in Levels :
            LET sum == OverallOf(level)
                flat == FlattenedRun(level)
            IN  /\ sum.tp + sum.fn = flat.tp + flat.fn
                /\ sum.tp + sum.fp = flat.tp + flat.fp
                /\ NoCrossFileMatch(level) =>
                      /\ SameCounts(sum, flat)
                      /\ sum.precision = flat.precision
                      /\ sum.recall = flat.recall
                      /\ sum.f1 = flat.f1

\* two processed files without any cross-file match, with matches, misses
\* and left-over predictions at every granularity
SummedEqualsFlattenedWitness ==
    /\ Returned
    /\ Cardinality(DOMAIN file_results) >= 2
    /\ \A level \in Levels :
          /\ NoCrossFileMatch(level)
          /\ OverallOf(level).tp >= 1
    /\ all_results.overall_triplet.fn >= 1
    /\ all_results.overall_triplet.fp >= 1



-----------------------------------------------------------------------------
\* the .txt names that are in the gold folder and in the prediction folder
CommonTxt == {f \in TxtNames : gold_dir[f] # Absent /\ pred_dir[f] # Absent}

\* the names in a sequence of names
NamesIn(names) == {names[i] : i \in DOMAIN names}

(* C11: process_folders hands to process_file_pair exactly the .txt names  *)
(* that are in both folders, each once; when the folders share no .txt     *)
(* name it returns None, evaluates no pair and writes no report.           *)
EvaluatesCommonFiles ==
    /\ NamesIn(evaluated) \subseteq CommonTxt
    /\ Cardinality(NamesIn(evaluated)) = Len(evaluated)
    /\ pc = "done" =>
          IF CommonTxt = {}
          THEN /\ report = None /\ all_results = NoDict
               /\ evaluated = <<>> /\ file_results = <<>> /\ overall = NoDict
          ELSE /\ NamesIn(evaluated) = CommonTxt
               /\ Returned /\ DOMAIN all_results.file_results \subseteq CommonTxt

\* both folders hold .txt files, under different names: the early return
EvaluatesCommonFilesWitness ==
    /\ pc = "done" /\ report = None /\ all_results = NoDict
    /\ \E f \in TxtNames : gold_dir[f] \in Texts /\ pred_dir[f] = Absent
    /\ \E f \in TxtNames : pred_dir[f] \in Texts /\ gold_dir[f] = Absent


\* the pair of the file the loop is about to visit fails
NextPairFails ==
    /\ pc = "loop" /\ todo # <<>>
    /\ ~process_file_pair(gold_dir[Head(todo)], pred_dir[Head(todo)]).ok

(* C12: a file pair for which process_file_pair returns None leaves the    *)
(* corpus totals, the type tables and file_results as they were, and the   *)
(* loop goes on with the next name; when process_folders returns, every    *)
(* pair that could be processed is in file_results and in the totals.      *)
FailedPairSkipped ==
    /\ [][NextPairFails =>
             /\ overall' = overall /\ file_results' = file_results
             /\ todo' = Tail(todo) /\ pc' = "loop"]_vars
    /\ [](Returned =>
             /\ NamesIn(evaluated) = CommonTxt
             /\ DOMAIN file_results = Processable
             /\ \A level \in Levels : \A field \in {"tp", "fp", "fn"} :
                   OverallOf(level)[field] = SumOverFiles(Processable, level, field))

\* a pair failed and a pair visited after it was processed and counted
FailedPairSkippedWitness ==
    /\ Returned
    /\ \E i, j \in DOMAIN evaluated :
          /\ i < j
          /\ evaluated[i] \notin DOMAIN file_results
          /\ evaluated[j] \in DOMAIN file_results
          /\ file_results[evaluated[j]].triplet.tp + file_results[evaluated[j]].triplet.fn > 0
          /\ all_results.overall_triplet.tp + all_results.overall_triplet.fn > 0


(* C13: when the two folders share a .txt name, process_folders reaches    *)
(* its return statement with a corpus result, and with save_excel set (as  *)
(* the main program calls it) the report writer has been called, even if   *)
(* every pair failed or every count is zero; the returned result is the    *)
(* one determined by the files, whether the report was written or not.     *)
RunCompletes ==
    /\ (pc = "start" /\ CommonTxt # {}) ~>
           (Returned /\ (save_excel => report \in {"written", "failed"}))
    /\ [](Returned =>
             /\ all_results.file_results =
                    [f \in Processable |-> process_file_pair(gold_dir[f], pred_dir[f])]
             /\ \A level \in Levels :
                   /\ \A field \in {"tp", "fp", "fn"} :
                         OverallOf(level)[field] = SumOverFiles(Processable, level, field)
                   /\ RatiosFromCounts(OverallOf(level)))

\* every pair failed and the report could not be written: a result is returned
RunCompletesWitness ==
    /\ Returned /\ save_excel /\ report = "failed"
    /\ CommonTxt # {} /\ Processable = {}
    /\ all_results.file_results = <<>>
    /\ all_results.overall_triplet.f1 = Zero


-----------------------------------------------------------------------------
\* the positions of the commas of a group
CommasOf(group) == {j \in 1..Len(group) : group[j] = ","}

\* the position of the k-th comma of a group
NthComma(group, k) ==
    CHOOSE j \in CommasOf(group) : Cardinality({i \in CommasOf(group) : i < j}) = k - 1

\* the k-th comma-separated segment of a group, trimmed
Segment(group, k) ==
    LET from == IF k = 1 THEN 1 ELSE NthComma(group, k - 1) + 1
        to == IF k = Cardinality(CommasOf(group)) + 1 THEN Len(group)
              ELSE NthComma(group, k) - 1
    IN  Strip(SubSeq(group, from, to))

RECURSIVE SegmentsFrom(_, _)
\* the trimmed segments from the k-th on, with a comma and a space between
SegmentsFrom(group, k) ==
    IF k = Cardinality(CommasOf(group)) + 1 THEN Segment(group, k)
    ELSE Segment(group, k) \o <<",", " ">> \o SegmentsFrom(group, k + 1)

RECURSIVE TriplesOfGroups(_)
\* what the groups of a text are to yield, in text order
TriplesOfGroups(groups) ==
    IF groups = <<>> THEN <<>>
    ELSE (IF Cardinality(CommasOf(Head(groups))) < 2 THEN <<>>
          ELSE << <<Segment(Head(groups), 1), Segment(Head(groups), 2),
                    SegmentsFrom(Head(groups), 3)>> >>)
         \o TriplesOfGroups(Tail(groups))

(* C14: parse_triplets yields, for the bracketed groups in text order, no  *)
(* triple for a group of fewer than three comma-separated segments, and    *)
(* otherwise one triple: the trimmed first segment, the trimmed second     *)
(* segment, and the remaining trimmed segments joined by ", ".             *)
ParseYieldsSegments ==
    pc = "parsed" => parsed = TriplesOfGroups(FindGroups(file_text, 1))

\* a group of four segments with blanks around the second one gives one
\* triple whose object is the third and fourth segment with ", " between
ParseYieldsSegmentsWitness ==
    /\ pc = "parsed"
    /\ Len(FindGroups(file_text, 1)) = 1
    /\ Cardinality(CommasOf(FindGroups(file_text, 1)[1])) = 3
    /\ Len(FindGroups(file_text, 1)[1]) = 9
    /\ parsed = << << <<"a">>, <<"b">>, <<"c", ",", " ", "d">> >> >>


-----------------------------------------------------------------------------
\* the text of an entity after its first colon, the entity itself when it
\* has no colon
AfterFirstColon(entity) ==
    IF \A i \in 1..Len(entity) : entity[i] # ":" THEN entity
    ELSE LET c == CHOOSE i \in 1..Len(entity) :
                      entity[i] = ":" /\ \A j \in 1..(i - 1) : entity[j] # ":"
         IN  [k \in 1..(Len(entity) - c) |-> entity[c + k]]

\* x occurs in y as a run of consecutive characters
OccursIn(x, y) ==
    \E off \in 0..Len(y) :
        /\ off + Len(x) <= Len(y)
        /\ \A k \in 1..Len(x) : y[off + k] = x[k]

(* C15: when the text after the first colon of one entity occurs in that   *)
(* of the other, is_similar_entity returns True for every threshold and    *)
(* every two type prefixes, in both argument orders, and entity-level      *)
(* matching of the one against the other counts one true positive.         *)
SubstringIsSimilar ==
    (/\ pc = "compared"
     /\ \/ OccursIn(AfterFirstColon(ent1), AfterFirstColon(ent2))
        \/ OccursIn(AfterFirstColon(ent2), AfterFirstColon(ent1)))
        => /\ similar = TRUE
           /\ calculate_entity_metrics(<<ent1>>, <<ent2>>).tp = 1
           /\ calculate_entity_metrics(<<ent2>>, <<ent1>>).tp = 1

\* a longer second entity of another type, a threshold no ratio reaches
SubstringIsSimilarWitness ==
    /\ pc = "compared" /\ similar = TRUE
    /\ ent1 = <<"a", ":", "b">> /\ ent2 = <<"b", ":", "a", "b">>
    /\ threshold = <<3, 2>>
    /\ ~RatioAtLeast(AfterFirstColon(ent1), AfterFirstColon(ent2), DefaultThreshold)


-----------------------------------------------------------------------------
\* the predicted positions consumed by the gold items before the i-th
ConsumedBefore(i) == {metrics.matched_pos[k] : k \in 1..(i - 1)} \ {0}

\* the predicted positions still in the working copy that the predicate of
\* the calculator links to the i-th gold item
Candidates(i) ==
    {j \in (1..Len(pred)) \ ConsumedBefore(i) : MatchesAt(calc, gold[i], pred[j])}

(* C16: every calculator is first-fit greedy: taking the gold items in     *)
(* their order, each is matched with the leftmost predicted item still in  *)
(* the working copy that satisfies the predicate; it is a false negative,  *)
(* and in unmatched_gold, exactly when there is no such item, and          *)
(* unmatched_gold keeps the gold order.                                    *)
FirstFitGreedy ==
    pc = "returned" =>
        /\ \A i \in 1..Len(gold) :
              IF Candidates(i) = {} THEN metrics.matched_pos[i] = 0
              ELSE /\ metrics.matched_pos[i] \in Candidates(i)
                   /\ \A j \in Candidates(i) : metrics.matched_pos[i] <= j
        /\ metrics.fn = Cardinality({i \in 1..Len(gold) : Candidates(i) = {}})
        /\ metrics.unmatched_gold =
              ItemsAt(gold, {i \in 1..Len(gold) : Candidates(i) = {}}, 1)

\* a gold entity with two candidates left took the left one although an
\* earlier position was already consumed, and a gold item went unmatched
FirstFitGreedyWitness ==
    /\ pc = "returned" /\ calc = "entity"
    /\ \E i \in 2..Len(gold) :
          /\ Cardinality(Candidates(i)) >= 2
          /\ ConsumedBefore(i) # {}
          /\ metrics.matched_pos[i] > 1
    /\ Len(metrics.unmatched_gold) >= 1


\* the predicted positions that matching consumed
Consumed == {metrics.matched_pos[i] : i \in 1..Len(metrics.matched_pos)} \ {0}

(* C17: the unmatched_pred list a calculator returns is the sequence of    *)
(* the original predicted items at the positions matching did not consume, *)
(* in predicted order, and its length is fp.                               *)
UnmatchedPredAreLeftovers ==
    pc = "returned" =>
        /\ Len(metrics.unmatched_pred) = metrics.fp
        /\ metrics.unmatched_pred = ItemsAt(pred, (1..Len(pred)) \ Consumed, 1)


-----------------------------------------------------------------------------
BracketChars == OpenBrackets \cup CloseBrackets

\* the text holds a bracketed group with one bracketed group inside it
HasNestedGroup(text) ==
    \E i, j, k, l \in 1..Len(text) :
        /\ i < j /\ j < k /\ k < l
        /\ text[i] \in OpenBrackets /\ text[j] \in OpenBrackets
        /\ text[k] \in CloseBrackets /\ text[l] \in CloseBrackets
        /\ \A m \in (i + 1)..(l - 1) : m \notin {j, k} => text[m] \notin BracketChars

(* C18: when a bracketed group contains another bracketed group, no        *)
(* subject, predicate or object that parse_triplets returns holds a        *)
(* bracket character.                                                      *)
NestedGroupExcluded ==
    (pc = "parsed" /\ HasNestedGroup(file_text)) =>
        \A t \in 1..Len(parsed) : \A part \in 1..3 :
            \A c \in 1..Len(parsed[t][part]) : parsed[t][part][c] \notin BracketChars

-----------------------------------------------------------------------------
\* the orderings of a list
Orderings(s) ==
    {[i \in 1..Len(s) |-> s[f[i]]] : f \in Permutations(1..Len(s))}

\* no two entries of the list are similar at the default threshold
NoSimilarPair(s) ==
    \A i, j \in 1..Len(s) :
        i # j => ~is_similar_entity(s[i], s[j], DefaultThreshold)

\* the tp, fp and fn of a returned dictionary
Counts(m) == <<m.tp, m.fp, m.fn>>

\* a gold list and a predicted list over the chain ac - abc - ab - axb: the
\* first gold entity is similar to both predicted ones, the second to "abc" only
OrderGold == << <<"T", ":", "a", "b">>, <<"U", ":", "a", "c">> >>
OrderPred == << <<"a", "b", "c">>, <<"a", "x", "b">> >>

(* C19: entity-level greedy matching depends on the order of the predicted *)
(* list: for the gold list [T:ab, U:ac] and the predicted list [abc, axb], *)
(* both without a similar pair, calculate_entity_metrics returns tp, fp,   *)
(* fn = 1, 1, 1, and for the same predicted entities in the other order it *)
(* returns 2, 0, 0; so the first result is smaller than a maximum          *)
(* one-to-one matching, which has two pairs.                               *)
GreedyOrderDependent ==
    (pc = "returned" /\ calc = "entity" /\ gold = OrderGold /\ pred = OrderPred) =>
        /\ NoSimilarPair(gold)
        /\ NoSimilarPair(pred)
        /\ Counts(metrics) = <<1, 1, 1>>
        /\ \E q \in Orderings(pred) :
               Counts(calculate_entity_metrics(gold, q)) = <<2, 0, 0>>

\* the call on these two lists has returned, neither list holds a similar
\* pair, and the same call on another ordering of the predicted list
\* matches one entity more
GreedyOrderDependentWitness ==
    /\ pc = "returned" /\ calc = "entity"
    /\ gold = OrderGold /\ pred = OrderPred
    /\ NoSimilarPair(gold) /\ NoSimilarPair(pred)
    /\ \E q \in Orderings(pred) :
           /\ calculate_entity_metrics(gold, q).tp = metrics.tp + 1
           /\ Counts(calculate_entity_metrics(gold, q)) # Counts(metrics)

-----------------------------------------------------------------------------
\* a list whose last entity "T:a" is contained in the two before it, which
\* are not similar to each other
OrderList ==
    << <<"T", ":", "a", "b">>, <<"U", ":", "a", "c">>, <<"T", ":", "a">> >>

(* C20: deduplication depends on the order of its input, the similarity    *)
(* relation not being transitive: "T:a" is similar to "T:ab" and to "U:ac",*)
(* which are not similar to each other; deduplicate_entities keeps two     *)
(* entities of [T:ab, U:ac, T:a] and one entity of another ordering of the *)
(* same list.                                                              *)
DedupOrderDependent ==
    (pc = "deduplicated" /\ threshold = DefaultThreshold /\ entities = OrderList) =>
        /\ is_similar_entity(entities[3], entities[1], threshold)
        /\ is_similar_entity(entities[3], entities[2], threshold)
        /\ ~is_similar_entity(entities[1], entities[2], threshold)
        /\ Len(unique_entities) = 2
        /\ \E q \in Orderings(entities) :
               Len(deduplicate_entities(q, threshold)) = 1

\* the list has been deduplicated at the default threshold, and another
\* ordering of it leaves a unique list of another size
DedupOrderDependentWitness ==
    /\ pc = "deduplicated" /\ threshold = DefaultThreshold
    /\ entities = OrderList
    /\ \E q \in Orderings(entities) :
           Len(deduplicate_entities(q, threshold)) # Len(unique_entities)

-----------------------------------------------------------------------------
\* what two items are compared by: the normal form of a triple, the
\* relation string itself
MatchKey(c, item) ==
    IF c = "triplet" THEN normalize_triplet(FormatTriplet(item)) ELSE item

\* how often the key occurs in the list
Occurrences(c, list, k) ==
    Cardinality({i \in 1..Len(list) : MatchKey(c, list[i]) = k})

\* size of the multiset intersection of the keys of g and of p: the n-th
\* occurrence of a key in g counts when p holds the key n times or more
CommonSize(c, g, p) ==
    Cardinality({i \in 1..Len(g) :
        Cardinality({j \in 1..i : MatchKey(c, g[j]) = MatchKey(c, g[i])})
            <= Occurrences(c, p, MatchKey(c, g[i]))})

\* the calculator of the level on two lists
CalculatorOf(c, g, p) ==
    IF c = "triplet" THEN calculate_metrics(g, p)
    ELSE calculate_relation_metrics(g, p)

(* C21: for the triple and the relation calculator tp is the size of the   *)
(* multiset intersection of the gold and the predicted items (of their     *)
(* normal forms for triples), and tp, fp and fn are the same for every     *)
(* reordering of the gold list and of the predicted list.                  *)
ExactMatchingIsMultiset ==
    (pc = "returned" /\ calc \in {"triplet", "relation"}) =>
        /\ metrics.tp = CommonSize(calc, gold, pred)
        /\ \A g \in Orderings(gold) : \A p \in Orderings(pred) :
               Counts(CalculatorOf(calc, g, p)) = Counts(metrics)

\* two gold triples were matched with the predicted triples in the other
\* order, the first of them with a triple that is written differently
ExactMatchingIsMultisetWitness ==
    /\ pc = "returned" /\ calc = "triplet"
    /\ metrics.matched_pos = <<2, 1>>
    /\ gold[1] # pred[2]

-----------------------------------------------------------------------------
RECURSIVE SumOverTypes(_, _, _)
\* the sum over the type labels in ts of the count named field
SumOverTypes(stats, ts, field) ==
    IF ts = {} THEN 0
    ELSE LET t == CHOOSE u \in ts : TRUE
         IN  stats[t][field] + SumOverTypes(stats, ts \ {t}, field)

\* the rows of the type table add up to the counts
Partitions(stats, counts) ==
    \A field \in {"tp", "fp", "fn"} :
        SumOverTypes(stats, DOMAIN stats, field) = counts[field]

(* C22: the per-type counts partition the overall counts: in the entity    *)
(* and the relation result of every processed file, and in the corpus      *)
(* tables of process_folders, tp, fp and fn summed over all type labels    *)
(* equal the overall tp, fp and fn of that level.                          *)
TypesPartitionCounts ==
    Returned =>
        /\ \A f \in DOMAIN file_results : \A level \in {"entity", "relation"} :
               Partitions(file_results[f][level].type_stats, file_results[f][level])
        /\ \A level \in {"entity", "relation"} :
               Partitions(TypeTableOf(level), OverallOf(level))

\* two files were processed, the corpus entity table has rows of several
\* types, and matched, missed and left-over entities were all counted
TypesPartitionCountsWitness ==
    /\ Returned
    /\ Cardinality(DOMAIN file_results) >= 2
    /\ Cardinality(DOMAIN all_results.overall_entity_type_stats) >= 2
    /\ all_results.overall_entity.tp >= 1
    /\ all_results.overall_entity.fp >= 2
    /\ all_results.overall_entity.fn >= 1

-----------------------------------------------------------------------------
\* no entity of the list is similar to an entity before it
NoLaterSimilar(list) ==
    \A i, j \in 1..Len(list) :
        i < j => ~is_similar_entity(list[j], list[i], DefaultThreshold)

(* C23: the entity lists process_file_pair hands to entity-level matching  *)
(* are deduplicated: they are the lists extract_entities_and_relations     *)
(* returned, and for any two positions i < j of such a list                *)
(* is_similar_entity(list[j], list[i]) is false.                           *)
MatchingGetsDeduplicated ==
    Returned =>
        \A f \in DOMAIN file_results :
            LET m == file_results[f]
            IN  /\ m.entity.gold_arg = m.gold_entities
                /\ m.entity.pred_arg = m.pred_entities
                /\ NoLaterSimilar(m.gold_entities)
                /\ NoLaterSimilar(m.pred_entities)

\* a processed file whose gold triples hold more entities than the list
\* of two or more entities that went into the matching
MatchingGetsDeduplicatedWitness ==
    /\ Returned
    /\ \E f \in DOMAIN file_results :
           /\ Len(file_results[f].gold_entities) >= 2
           /\ Len(SubjectsAndObjects(file_results[f].gold_triplets, 1))
                  > Len(file_results[f].gold_entities)

-----------------------------------------------------------------------------
(* C24: in the doubao client get_next_token always returns, never returns  *)
(* a token that has been marked failed, and returns None exactly when      *)
(* every configured token has been marked failed.                          *)
GetNextTokenSound ==
    /\ pc # "raised"
    /\ pc = "returned" =>
          /\ token # None => token \notin failed_tokens
          /\ token = None <=> Range(api_tokens) \subseteq failed_tokens

-----------------------------------------------------------------------------
\* the attempts of the running call that issued a chat-completion request
Requested == {k \in 1..Len(taken) : taken[k].result \notin NotSent}

\* the positions of the token list passed over between two attempts
PassedOver(i, j) ==
    {(i + e) % Len(api_tokens) : e \in 1..((j - i - 1) % Len(api_tokens))}

(* C25: in both clients a call of make_api_request issues at most          *)
(* max_retries chat-completion requests; only its last request can have    *)
(* succeeded, and then the call returns the content of that request, and   *)
(* it returns None otherwise; the token index stays inside the token list, *)
(* and consecutive attempts take the tokens in rotation: an attempt takes  *)
(* the position after the one before, passing over only tokens that have   *)
(* been marked failed, and never a token the call has seen rejected.       *)
RequestsBoundedRoundRobin ==
    pc \in {"loop", "returned"} =>
        /\ Cardinality(Requested) <= max_retries
        /\ \A k \in 1..(Len(taken) - 1) : taken[k].result \notin Replies
        /\ pc = "returned" =>
              response = IF taken # <<>> /\ taken[Len(taken)].result \in Replies
                         THEN taken[Len(taken)].result ELSE None
        /\ api_tokens # <<>> => current_token_index \in 0..(Len(api_tokens) - 1)
        /\ \A k \in 1..Len(taken) :
              /\ taken[k].index \in 0..(Len(api_tokens) - 1)
              /\ taken[k].token = api_tokens[taken[k].index + 1]
        /\ \A k \in 1..(Len(taken) - 1) :
              /\ \A i \in PassedOver(taken[k].index, taken[k + 1].index) :
                    api_tokens[i + 1] \in failed_tokens
              /\ \A j \in 1..k :
                    taken[j].result = "auth error" => taken[k + 1].token # taken[j].token

\* a call of the doubao client has returned the content of its third
\* request, after a rejected token that the third attempt passed over
RequestsBoundedRoundRobinWitness ==
    /\ pc = "returned" /\ client = "doubao"
    /\ Len(taken) = 3 /\ max_retries = 3
    /\ taken[1].result = "auth error"
    /\ taken[3].index # (taken[2].index + 1) % Len(api_tokens)
    /\ response \in Replies

=============================================================================
